---- MODULE Spec2Model ----
(***************************************************************************)
(* Model of the AsyncData library (src/src/async-data.ts).                 *)
(*                                                                         *)
(* The library is a set of synchronous functions over plain JavaScript     *)
(* objects.  The state of the model is the caller's object heap (objects   *)
(* have identity: an address), the heap as it was when the last library    *)
(* call started, the last library call with its outcome, and, for each     *)
(* object, which constructor its value descends from.                      *)
(*                                                                         *)
(* JavaScript values are tagged records, so that `undefined`, `null`,      *)
(* numbers, strings, booleans, errors and object references stay distinct  *)
(* and `typeof`, truthiness, `??`, `?.`, property reads and object spread  *)
(* are computed as the language computes them.  Objects are plain data     *)
(* objects (own enumerable properties only, no accessors).                 *)
(***************************************************************************)
EXTENDS Integers, FiniteSets, Sequences, TLC

VARIABLES heap, prev, last, origin

vars == <<heap, prev, last, origin>>

\* Number of objects the caller holds at once.
MaxObjs == 2

Addrs == 1..MaxObjs

-----------------------------------------------------------------------------
\* JavaScript values

Undefined == [type |-> "undefined"]
Null == [type |-> "null"]
Bool(b) == [type |-> "boolean", b |-> b]
Num(n) == [type |-> "number", n |-> n]
Str(s) == [type |-> "string", s |-> s]
ErrorOf(m) == [type |-> "error", message |-> m]
Ref(a) == [type |-> "ref", addr |-> a]

\* typeof v
TypeOf(v) ==
    CASE v.type = "undefined" -> "undefined"
      [] v.type = "null" -> "object"
      [] v.type = "boolean" -> "boolean"
      [] v.type = "number" -> "number"
      [] v.type = "string" -> "string"
      [] v.type = "error" -> "object"
      [] v.type = "ref" -> "object"

\* ToBoolean(v): what `v && ...` and Boolean(v) test
Truthy(v) ==
    CASE v.type = "undefined" -> FALSE
      [] v.type = "null" -> FALSE
      [] v.type = "boolean" -> v.b
      [] v.type = "number" -> v.n # 0
      [] v.type = "string" -> v.s # ""
      [] v.type = "error" -> TRUE
      [] v.type = "ref" -> TRUE

\* v is undefined or null: a property read on it is a TypeError
Nullish(v) == v.type \in {"undefined", "null"}

\* v ?? d
Coalesce(v, d) == IF Nullish(v) THEN d ELSE v

\* The outcome of a call: a returned value or a raised error.
Return(v) == [kind |-> "return", value |-> v]
Throw(e) == [kind |-> "throw", error |-> e]

\* The error the engine raises for a property read on undefined/null and for
\* Reflect.has on a non-object.
TypeError == [type |-> "error", name |-> "TypeError"]

\* new Error('Cannot fork the provided AsyncData Object. Unsupported state.')
ForkError == ErrorOf("Cannot fork the provided AsyncData Object. Unsupported state.")

\* o.k for an object o: the property's value, undefined when o has no such key
Get(o, k) == IF k \in DOMAIN o THEN o[k] ELSE Undefined

\* v.k for the value v in heap h (v is not nullish)
Prop(h, v, k) == Get(h[v.addr], k)

\* v?.k
OptProp(h, v, k) == IF Nullish(v) THEN Undefined ELSE Prop(h, v, k)

\* Spread with a plausible slip, { ...source, data: data ?? source.data }: an
\* undefined or null payload keeps the source's payload.
SpreadKeepsData(source, data) ==
    [k \in DOMAIN source \cup {"data"} |->
        IF k = "data" THEN Coalesce(data, Get(source, "data")) ELSE source[k]]

\* { ...source, data }: a new object with source's own properties and data
Spread(source, data) ==
    [k \in DOMAIN source \cup {"data"} |-> IF k = "data" THEN data ELSE source[k]]

\* The address a new object literal gets: one no live object has.
Fresh(h) == CHOOSE a \in Addrs \ DOMAIN h : \A b \in Addrs \ DOMAIN h : a <= b

\* Evaluating an object literal: the object is allocated and a reference to
\* it is the value.
New(h, obj) ==
    LET a == Fresh(h) IN [heap |-> (a :> obj) @@ h, outcome |-> Return(Ref(a))]

-----------------------------------------------------------------------------
\* The library

\* create with the isLoading argument ignored.
createIgnoresLoading(h, data, isLoading) ==
    New(h, [data |-> data, state |-> Str("pending"), isLoading |-> Bool(FALSE)])

create(h, data, isLoading) ==
    New(h, [data |-> data, state |-> Str("pending"),
            isLoading |-> Coalesce(isLoading, Bool(FALSE))])

\* resolve with a misspelt tag.
resolveWrongTag(h, data) ==
    New(h, [data |-> data, state |-> Str("resolved"), isLoading |-> Bool(FALSE)])

resolve(h, data) ==
    New(h, [data |-> data, state |-> Str("fulfilled"), isLoading |-> Bool(FALSE)])

\* reject leaving the value marked as loading.
rejectStillLoading(h, data, error) ==
    New(h, [data |-> data, state |-> Str("rejected"), error |-> error,
            isLoading |-> Bool(TRUE)])

reject(h, data, error) ==
    New(h, [data |-> data, state |-> Str("rejected"), error |-> error,
            isLoading |-> Bool(FALSE)])

\* isPending conflating the two axes: a loading value counts as pending.
isPendingOrLoading(h, data) ==
    IF Nullish(data) THEN Throw(TypeError)
    ELSE Return(Bool(\/ Prop(h, data, "state") = Str("pending")
                     \/ Prop(h, data, "isLoading") = Bool(TRUE)))

isPending(h, data) ==
    IF Nullish(data) THEN Throw(TypeError)
    ELSE Return(Bool(Prop(h, data, "state") = Str("pending")))

\* isFulfilled without the optional chaining: data.state.
isFulfilledUnguarded(h, data) ==
    IF Nullish(data) THEN Throw(TypeError)
    ELSE Return(Bool(Prop(h, data, "state") = Str("fulfilled")))

isFulfilled(h, data) ==
    Return(Bool(OptProp(h, data, "state") = Str("fulfilled")))

isFulfilledAndDefined(h, data) ==
    Return(Bool(/\ Truthy(data)
                /\ Prop(h, data, "state") = Str("fulfilled")
                /\ TypeOf(Prop(h, data, "data")) # "undefined"))

isRejected(h, data) ==
    IF Nullish(data) THEN Throw(TypeError)
    ELSE Return(Bool(Prop(h, data, "state") = Str("rejected")))

\* is tightened into a validator of the tag.
isStrict(h, object) ==
    IF object.type # "ref" THEN Throw(TypeError)
    ELSE Return(Bool(/\ "state" \in DOMAIN h[object.addr]
                     /\ "isLoading" \in DOMAIN h[object.addr]
                     /\ h[object.addr]["state"] \in
                            {Str("pending"), Str("rejected"), Str("fulfilled")}))

is(h, object) ==
    IF object.type # "ref" THEN Throw(TypeError)
    ELSE Return(Bool(/\ "state" \in DOMAIN h[object.addr]
                     /\ "isLoading" \in DOMAIN h[object.addr]))

\* fork guarding with `if (!source.state)`: any truthy tag passes.
forkTruthyState(h, source, data) ==
    IF Nullish(source) THEN [heap |-> h, outcome |-> Throw(TypeError)]
    ELSE IF ~Truthy(Prop(h, source, "state"))
         THEN [heap |-> h, outcome |-> Throw(ForkError)]
         ELSE New(h, Spread(h[source.addr], data))

\* fork written as Object.assign(source, { data }): source is changed in
\* place and returned.
forkInPlace(h, source, data) ==
    IF Nullish(source) THEN [heap |-> h, outcome |-> Throw(TypeError)]
    ELSE IF Prop(h, source, "state") \notin {Str("pending"), Str("rejected"), Str("fulfilled")}
         THEN [heap |-> h, outcome |-> Throw(ForkError)]
         ELSE [heap |-> [h EXCEPT ![source.addr] = Spread(h[source.addr], data)],
               outcome |-> Return(source)]

fork(h, source, data) ==
    IF Nullish(source) THEN [heap |-> h, outcome |-> Throw(TypeError)]
    ELSE IF Prop(h, source, "state") \notin {Str("pending"), Str("rejected"), Str("fulfilled")}
         THEN [heap |-> h, outcome |-> Throw(ForkError)]
         ELSE New(h, Spread(h[source.addr], data))

-----------------------------------------------------------------------------
\* Inputs

\* Payloads: absent, null, and a defined but falsy value (the empty string).
DataVals == {Undefined, Null, Str("")}

\* Caller-supplied errors (opaque to the library).
Errors == {ErrorOf("boom")}

\* The optional isLoading argument of create.
LoadingArgs == {Undefined, Bool(TRUE), Bool(FALSE)}

\* Objects of unknown provenance (object literals, deserialized JSON): an
\* unrecognized tag with either flag, a retry in flight after a failure,
\* objects missing one of the two keys, and keys holding undefined beside an
\* extra key.
ExternalObjs ==
    { [state |-> Str("unknown"), isLoading |-> Bool(FALSE)],
      [state |-> Str("unknown"), isLoading |-> Bool(TRUE)],
      [state |-> Str("rejected"), data |-> Undefined, error |-> ErrorOf("boom"),
       isLoading |-> Bool(TRUE)],
      [state |-> Str("pending")],
      [isLoading |-> Bool(TRUE), extra |-> Null],
      [state |-> Undefined, isLoading |-> Undefined, extra |-> Null] }

\* What a caller can pass where an AsyncData object is expected.
ArgVals(h) == {Undefined, Null} \cup {Ref(a) : a \in DOMAIN h}

Call(op, args, outcome) == [op |-> op, args |-> args, outcome |-> outcome]

NoCall == Call("none", <<>>, Return(Undefined))

Tags == {"create", "resolve", "reject"}

\* Which constructor the value returned by a call descends from.
Descent(o, tag) ==
    IF o.kind = "return" /\ o.value.type = "ref" /\ o.value.addr \notin DOMAIN origin
    THEN (o.value.addr :> tag) @@ origin
    ELSE origin

-----------------------------------------------------------------------------
\* The state machine

Init ==
    /\ heap = [a \in {} |-> [k \in {} |-> Undefined]]
    /\ prev = heap
    /\ last = NoCall
    /\ origin = [a \in {} |-> "none"]

Create ==
    /\ DOMAIN heap # Addrs
    /\ \E data \in DataVals, isLoading \in LoadingArgs :
         LET r == create(heap, data, isLoading) IN
         /\ heap' = r.heap
         /\ prev' = heap
         /\ last' = Call("create", <<data, isLoading>>, r.outcome)
         /\ origin' = Descent(r.outcome, "create")

Resolve ==
    /\ DOMAIN heap # Addrs
    /\ \E data \in DataVals :
         LET r == resolve(heap, data) IN
         /\ heap' = r.heap
         /\ prev' = heap
         /\ last' = Call("resolve", <<data>>, r.outcome)
         /\ origin' = Descent(r.outcome, "resolve")

Reject ==
    /\ DOMAIN heap # Addrs
    /\ \E data \in DataVals, error \in Errors :
         LET r == reject(heap, data, error) IN
         /\ heap' = r.heap
         /\ prev' = heap
         /\ last' = Call("reject", <<data, error>>, r.outcome)
         /\ origin' = Descent(r.outcome, "reject")

Fork ==
    /\ DOMAIN heap # Addrs
    /\ \E source \in ArgVals(heap), data \in DataVals :
         LET r == fork(heap, source, data) IN
         /\ heap' = r.heap
         /\ prev' = heap
         /\ last' = Call("fork", <<source, data>>, r.outcome)
         /\ origin' = Descent(r.outcome,
                              IF source.type = "ref" THEN origin[source.addr] ELSE "external")

Predicate(op, outcome, v) ==
    /\ last' = Call(op, <<v>>, outcome)
    /\ prev' = heap
    /\ UNCHANGED <<heap, origin>>

IsPending == \E v \in ArgVals(heap) : Predicate("isPending", isPending(heap, v), v)

IsFulfilled == \E v \in ArgVals(heap) : Predicate("isFulfilled", isFulfilled(heap, v), v)

IsFulfilledAndDefined ==
    \E v \in ArgVals(heap) :
        Predicate("isFulfilledAndDefined", isFulfilledAndDefined(heap, v), v)

IsRejected == \E v \in ArgVals(heap) : Predicate("isRejected", isRejected(heap, v), v)

Is == \E v \in ArgVals(heap) : Predicate("is", is(heap, v), v)

\* The caller builds an object that no constructor of the library made.
External ==
    /\ DOMAIN heap # Addrs
    /\ \E obj \in ExternalObjs :
         LET r == New(heap, obj) IN
         /\ heap' = r.heap
         /\ prev' = r.heap
         /\ last' = NoCall
         /\ origin' = Descent(r.outcome, "external")

\* The caller drops its reference to an object (the slot is replaced wholesale).
Discard ==
    \E a \in DOMAIN heap :
        /\ heap' = [b \in DOMAIN heap \ {a} |-> heap[b]]
        /\ prev' = heap'
        /\ last' = NoCall
        /\ origin' = [b \in DOMAIN origin \ {a} |-> origin[b]]

Next ==
    \/ Create
    \/ Resolve
    \/ Reject
    \/ Fork
    \/ IsPending
    \/ IsFulfilled
    \/ IsFulfilledAndDefined
    \/ IsRejected
    \/ Is
    \/ External
    \/ Discard

Spec == Init /\ [][Next]_vars

-----------------------------------------------------------------------------
\* Shorthands for the properties

Returned == last.outcome.kind = "return"
Raised == last.outcome.kind = "throw"
ResultObj == heap[last.outcome.value.addr]
ArgIsObj == last.args[1].type = "ref"
ArgObj == prev[last.args[1].addr]

TypeOK ==
    /\ DOMAIN heap \subseteq Addrs
    /\ DOMAIN origin = DOMAIN heap
    /\ last.op \in {"none", "create", "resolve", "reject", "fork", "isPending",
                    "isFulfilled", "isFulfilledAndDefined", "isRejected", "is"}

\* The three tags fork recognizes.
Recognized == {Str("pending"), Str("fulfilled"), Str("rejected")}

ResultAddr == last.outcome.value.addr
IsForkOfObj == last.op = "fork" /\ ArgIsObj
Predicates == {"isPending", "isFulfilled", "isFulfilledAndDefined", "isRejected"}
Constructors == {"create", "resolve", "reject"}

-----------------------------------------------------------------------------
\* C1: for every source whose state is one of the three tags and every
\* newData (undefined included), fork returns a value that has exactly
\* source's fields plus data, each field other than data equal to source's
\* (state, isLoading, error, any other key), and data equal to newData.
C1_ForkPreservesAllButData ==
    (IsForkOfObj /\ Get(ArgObj, "state") \in Recognized) =>
        /\ Returned
        /\ DOMAIN ResultObj = DOMAIN ArgObj \cup {"data"}
        /\ \A k \in DOMAIN ArgObj \ {"data"} : ResultObj[k] = ArgObj[k]
        /\ ResultObj["data"] = last.args[2]

\* A rejected value holding a payload was forked with undefined: the result
\* keeps the error and the tag, and its payload is undefined.
C1_Witness ==
    /\ IsForkOfObj
    /\ Returned
    /\ Get(ArgObj, "state") = Str("rejected")
    /\ "error" \in DOMAIN ArgObj
    /\ Get(ArgObj, "data") = Str("")
    /\ last.args[2] = Undefined

\* C2 (as claimed): isFulfilledAndDefined returns true exactly when the value
\* is present, its state is 'fulfilled' and its data is neither undefined
\* nor null.
C2_TrueIffFulfilledAndNotNullish ==
    last.op = "isFulfilledAndDefined" =>
        last.outcome =
            Return(Bool(/\ ArgIsObj
                        /\ Get(ArgObj, "state") = Str("fulfilled")
                        /\ ~Nullish(Get(ArgObj, "data"))))

\* C3 (as claimed): no constructor and no predicate raises on any input, an
\* absent argument included, and fork on a source with no recognized state is
\* the only call that raises.
C3_OnlyForkRaises ==
    /\ last.op \in Constructors \cup Predicates => Returned
    /\ Raised => /\ last.op = "fork"
                 /\ ArgIsObj => Get(ArgObj, "state") \notin Recognized

\* C3 (amended): constructors never raise; isFulfilled and
\* isFulfilledAndDefined never raise and return false for an undefined or
\* null argument; every predicate that returns, returns a boolean; a call
\* raises exactly when it is fork on an object with an unrecognized state, or
\* isPending, isRejected, is or fork on an undefined or null argument (a
\* TypeError).
C3_RaisesExactlyWhen ==
    /\ last.op \in Constructors \cup {"isFulfilled", "isFulfilledAndDefined"} => Returned
    /\ (last.op \in {"isFulfilled", "isFulfilledAndDefined"} /\ Nullish(last.args[1]))
           => last.outcome = Return(Bool(FALSE))
    /\ (last.op \in Predicates \cup {"is"} /\ Returned)
           => last.outcome.value.type = "boolean"
    /\ Raised <=>
           \/ IsForkOfObj /\ Get(ArgObj, "state") \notin Recognized
           \/ /\ last.op \in {"isPending", "isRejected", "is", "fork"}
              /\ Nullish(last.args[1])
    /\ (Raised /\ ~IsForkOfObj) => last.outcome = Throw(TypeError)

\* isPending was called with undefined and raised.
C3_Witness ==
    /\ last.op = "isPending"
    /\ last.args[1] = Undefined
    /\ last.outcome = Throw(TypeError)

\* C4: fork on an object raises the 'Unsupported state' error if and only if
\* the object's state is not one of the three tags; when it raises, nothing is
\* returned and no object has changed; for a recognized state it returns.
C4_ForkRaisesIffUnrecognized ==
    IsForkOfObj =>
        /\ last.outcome = Throw(ForkError) <=> Get(ArgObj, "state") \notin Recognized
        /\ Raised => last.outcome = Throw(ForkError) /\ heap = prev
        /\ Get(ArgObj, "state") \in Recognized => Returned

\* fork({state: 'unknown', isLoading: false}, x) raised the designated error.
C4_Witness ==
    /\ IsForkOfObj
    /\ ArgObj = [state |-> Str("unknown"), isLoading |-> Bool(FALSE)]
    /\ last.outcome = Throw(ForkError)

\* C5: for an object x, is(x) is true if and only if x has a 'state' key and
\* an 'isLoading' key, whatever the values under them, whatever data and
\* error are, and whatever other keys x has.
C5_IsIffBothKeys ==
    (last.op = "is" /\ ArgIsObj) =>
        last.outcome = Return(Bool({"state", "isLoading"} \subseteq DOMAIN ArgObj))

\* is answered true for an object with an extra key whose state is not one of
\* the three tags.
C5_Witness ==
    /\ last.op = "is"
    /\ ArgIsObj
    /\ "extra" \in DOMAIN ArgObj
    /\ Get(ArgObj, "state") \notin Recognized
    /\ last.outcome = Return(Bool(TRUE))

\* C6: each constructor returns exactly its variant's record:
\* create(d, l) = {state: 'pending', data: d, isLoading: l}, with isLoading
\* false when l is omitted; resolve(d) = {state: 'fulfilled', data: d,
\* isLoading: false}; reject(d, e) = {state: 'rejected', data: d, error: e,
\* isLoading: false}.
C6_ConstructorsExact ==
    /\ last.op = "create" =>
          /\ Returned
          /\ ResultObj = [state |-> Str("pending"), data |-> last.args[1],
                          isLoading |-> IF last.args[2] = Undefined
                                        THEN Bool(FALSE) ELSE last.args[2]]
    /\ last.op = "resolve" =>
          /\ Returned
          /\ ResultObj = [state |-> Str("fulfilled"), data |-> last.args[1],
                          isLoading |-> Bool(FALSE)]
    /\ last.op = "reject" =>
          /\ Returned
          /\ ResultObj = [state |-> Str("rejected"), data |-> last.args[1],
                          error |-> last.args[2], isLoading |-> Bool(FALSE)]

\* create(undefined, true) returned {state: 'pending', data: undefined,
\* isLoading: true}.
C6_Witness ==
    /\ last.op = "create"
    /\ last.args = <<Undefined, Bool(TRUE)>>
    /\ Returned
    /\ ResultObj["isLoading"] = Bool(TRUE)

\* The predicates among isPending, isFulfilled, isRejected that answer true
\* for the object at address a.
TrueOf(a) ==
    {p \in {"create", "resolve", "reject"} :
        CASE p = "create" -> isPending(heap, Ref(a)) = Return(Bool(TRUE))
          [] p = "resolve" -> isFulfilled(heap, Ref(a)) = Return(Bool(TRUE))
          [] p = "reject" -> isRejected(heap, Ref(a)) = Return(Bool(TRUE))}

\* C7: for every value that descends from create, resolve or reject through
\* any number of forks, exactly one of isPending, isFulfilled, isRejected
\* answers true, and it is the one of the constructor the value descends from.
C7_ExactlyOnePredicate ==
    \A a \in DOMAIN heap : origin[a] \in Tags => TrueOf(a) = {origin[a]}

\* A value that descends from reject has just been returned by fork.
C7_Witness ==
    /\ IsForkOfObj
    /\ Returned
    /\ origin[ResultAddr] = "reject"
    /\ ResultObj["data"] # Get(ArgObj, "data")

\* Two objects that differ in isLoading and in nothing else.
DifferOnlyInLoading(x, y) ==
    /\ DOMAIN x = DOMAIN y
    /\ "isLoading" \in DOMAIN x
    /\ x["isLoading"] # y["isLoading"]
    /\ \A k \in DOMAIN x \ {"isLoading"} : x[k] = y[k]

\* fork applied to object x alone, with payload d: the outcome and, when it
\* returns, the new object.
ForkOf(x, d) ==
    LET r == fork(1 :> x, Ref(1), d) IN
    [outcome |-> IF r.outcome.kind = "return" THEN Return(Undefined) ELSE r.outcome,
     obj |-> IF r.outcome.kind = "return" THEN r.heap[r.outcome.value.addr]
             ELSE [k \in {} |-> Undefined]]

\* C8: for any two values that differ only in isLoading, isPending,
\* isFulfilled, isFulfilledAndDefined, isRejected and is answer the same, fork
\* succeeds or fails the same way, and each fork result keeps its own source's
\* isLoading.
C8_LoadingIndependentOfState ==
    \A a, b \in DOMAIN heap :
        DifferOnlyInLoading(heap[a], heap[b]) =>
            /\ isPending(heap, Ref(a)) = isPending(heap, Ref(b))
            /\ isFulfilled(heap, Ref(a)) = isFulfilled(heap, Ref(b))
            /\ isFulfilledAndDefined(heap, Ref(a)) = isFulfilledAndDefined(heap, Ref(b))
            /\ isRejected(heap, Ref(a)) = isRejected(heap, Ref(b))
            /\ is(heap, Ref(a)) = is(heap, Ref(b))
            /\ \A d \in DataVals :
                   /\ ForkOf(heap[a], d).outcome = ForkOf(heap[b], d).outcome
                   /\ ForkOf(heap[a], d).outcome.kind = "return" =>
                          /\ ForkOf(heap[a], d).obj["isLoading"] = heap[a]["isLoading"]
                          /\ ForkOf(heap[b], d).obj["isLoading"] = heap[b]["isLoading"]

\* The caller holds a rejected value with isLoading = true and its twin with
\* isLoading = false.
C8_Witness ==
    \E a, b \in DOMAIN heap :
        /\ DifferOnlyInLoading(heap[a], heap[b])
        /\ heap[a]["state"] = Str("rejected")
        /\ heap[a]["isLoading"] = Bool(TRUE)

\* C9: no call changes an object that existed before it: every object is
\* afterwards what it was when the call started, and the object fork returns
\* is a new one, distinct from source and from every other existing object.
C9_NoMutation ==
    /\ \A a \in DOMAIN prev : a \in DOMAIN heap /\ heap[a] = prev[a]
    /\ (last.op = "fork" /\ Returned) =>
           /\ ResultAddr \notin DOMAIN prev
           /\ ResultAddr # last.args[1].addr

\* fork returned an object whose payload differs from its source's, and the
\* source still holds its own payload.
C9_Witness ==
    /\ IsForkOfObj
    /\ Returned
    /\ ResultObj["data"] # Get(ArgObj, "data")
    /\ last.args[1].addr \in DOMAIN heap
    /\ Get(heap[last.args[1].addr], "data") = Get(ArgObj, "data")

\* C10: in every value that descends from create, resolve or reject through
\* any number of forks, isLoading = true implies state = 'pending'; values
\* that descend from resolve or reject have isLoading = false.
C10_LoadingImpliesPending ==
    \A a \in DOMAIN heap :
        origin[a] \in Tags =>
            /\ heap[a]["isLoading"] = Bool(TRUE) => heap[a]["state"] = Str("pending")
            /\ origin[a] \in {"resolve", "reject"} => heap[a]["isLoading"] = Bool(FALSE)

\* A pending value with isLoading = true has been forked and its fork is
\* still loading.
C10_Witness ==
    /\ IsForkOfObj
    /\ Returned
    /\ origin[ResultAddr] = "create"
    /\ ResultObj["isLoading"] = Bool(TRUE)
    /\ ResultObj["data"] # Get(ArgObj, "data")
====
